---- MODULE Spec2Model ----
(***************************************************************************)
(* SET50 Futures - Mini Trader Dashboard (set50.test7.py).                 *)
(*                                                                         *)
(* The dashboard is one Streamlit script that is executed top to bottom on *)
(* every refresh.  A run of the script is modelled section by section, in  *)
(* the order of the source text.                                           *)
(*                                                                         *)
(* Numbers.  Decimal quantities are exact fixed-point integers:            *)
(*   prices, thresholds and swing points in 1/100   (814.2   -> 81420)     *)
(*   the sell/buy volume ratio in 1/10              (2.0     -> 20)        *)
(*   retracement levels in 1/100000                 (822.92  -> 82292000)  *)
(* A comparison with a fraction is cross-multiplied, so nothing is ever    *)
(* rounded.  The rounding of binary floating point is not modelled.        *)
(*                                                                         *)
(* Text.  A timestamp "HH:MM" is the tuple of its four digits.             *)
(***************************************************************************)
EXTENDS Integers, Sequences, FiniteSets, TLC

VARIABLES
    provider,   \* the two tables written in get_mock_contract_data
    widgets,    \* the values of the sidebar widgets
    pc,         \* the section of the script that runs next
    ns,         \* the script's namespace: the names bound so far in this run
    page,       \* what this run has displayed so far, by panel
    trace,      \* the statements this run has executed, in order
    fault,      \* the exception that ended this run, or PyNone
    earlier     \* history: one finished earlier run, <<>> when none is kept

vars == <<provider, widgets, pc, ns, page, trace, fault, earlier>>

PyNone == "None"

\* An empty dict / an unset page.
Empty == <<>>

Bound(name) == name \in DOMAIN ns

Bind(env, name, value) == (name :> value) @@ env

RECURSIVE SumSeq(_)
SumSeq(s) == IF s = <<>> THEN 0 ELSE Head(s) + SumSeq(Tail(s))

-----------------------------------------------------------------------------
(* Mock data generator *)

Trade(ts, price, volume, type) ==
    [timestamp |-> ts, price |-> price, volume |-> volume, type |-> type]

MockBase ==
    [S50Z25 |-> [price |-> 81400, change |-> -132, bid |-> 20000, offer |-> 50000],
     S50H26 |-> [price |-> 84210, change |-> 45, bid |-> 18000, offer |-> 22000],
     S50M26 |-> [price |-> 79875, change |-> -62, bid |-> 15000, offer |-> 30000]]

MockTradesMap ==
    [S50Z25 |-> << Trade(<<0,9,4,5>>, 81420, 300, "Aggressive Sell"),
                   Trade(<<1,1,1,5>>, 81460, 200, "Aggressive Buy"),
                   Trade(<<1,5,4,5>>, 81400, 500, "Aggressive Sell"),
                   Trade(<<1,6,0,5>>, 81480, 400, "Aggressive Buy") >>,
     S50H26 |-> << Trade(<<0,9,3,0>>, 84180, 150, "Aggressive Buy"),
                   Trade(<<1,3,2,0>>, 84220, 250, "Aggressive Buy"),
                   Trade(<<1,5,5,0>>, 84200, 100, "Aggressive Sell"),
                   Trade(<<1,6,1,0>>, 84250, 300, "Aggressive Buy") >>,
     S50M26 |-> << Trade(<<0,9,5,0>>, 79900, 400, "Aggressive Sell"),
                   Trade(<<1,4,1,0>>, 79850, 300, "Aggressive Sell"),
                   Trade(<<1,5,4,0>>, 79880, 200, "Aggressive Buy"),
                   Trade(<<1,6,2,0>>, 79920, 250, "Aggressive Buy") >>]

MockProvider == [base |-> MockBase, trades_map |-> MockTradesMap]

Raise(exc) == [raised |-> exc]

Raised(r) == "raised" \in DOMAIN r

\* dict.get(key, default)
DictGet(d, key, default) == IF key \in DOMAIN d THEN d[key] ELSE default

\* get_mock_contract_data with its tables kept between calls: a contract asked
\* for again gets the records an earlier run has already written to.
get_mock_contract_data_shared(contract) ==
    IF contract \notin DOMAIN provider.base
    THEN Raise("AttributeError")
    ELSE IF /\ earlier # <<>>
            /\ "snapshot" \in DOMAIN earlier[1].ns
            /\ earlier[1].widgets.contract = contract
    THEN earlier[1].ns.snapshot
    ELSE Bind(provider.base[contract], "trades",
              DictGet(provider.trades_map, contract, <<>>))

\* base.get(contract) is None for a missing key, and None has no .copy()
get_mock_contract_data(contract) ==
    IF contract \notin DOMAIN provider.base
    THEN Raise("AttributeError")
    ELSE Bind(provider.base[contract], "trades",
              DictGet(provider.trades_map, contract, <<>>))

-----------------------------------------------------------------------------
(* Utility functions *)

\* datetime.strptime(ts, "%H:%M"), for a well-formed timestamp
strptime(ts) == [hour |-> 10 * ts[1] + ts[2], minute |-> 10 * ts[3] + ts[4]]

\* pd.DataFrame(list of dicts): no rows gives a frame with no columns
DataFrame(records) ==
    [columns |-> IF records = <<>> THEN {} ELSE DOMAIN records[1],
     rows |-> records]

DfEmpty(df) == df.rows = <<>> \/ df.columns = {}

\* the loop of parse_trades: every record of the list gets a "dt" entry
with_dt(trades) ==
    [i \in DOMAIN trades |-> Bind(trades[i], "dt", strptime(trades[i].timestamp))]

parse_trades(trades) == DataFrame(with_dt(trades))

\* df[col], one value per row
Column(df, col) == [i \in DOMAIN df.rows |-> df.rows[i][col]]

\* df[col] == value
ColumnEq(df, col, value) == [i \in DOMAIN df.rows |-> df.rows[i][col] = value]

\* mask & mask
MaskAnd(a, b) == [i \in DOMAIN a |-> a[i] /\ b[i]]

\* df.loc[mask, col]
RECURSIVE Loc(_, _, _)
Loc(df, mask, col) ==
    IF df.rows = <<>> THEN <<>>
    ELSE LET rest == Loc([df EXCEPT !.rows = Tail(@)], Tail(mask), col)
         IN  IF Head(mask) THEN <<Head(df.rows)[col]>> \o rest ELSE rest

\* df['dt'].dt.hour
Hours(df) == [i \in DOMAIN df.rows |-> df.rows[i].dt.hour]

early(trades_df) == [i \in DOMAIN trades_df.rows |-> Hours(trades_df)[i] < 10]

\* mid running to the end of the 15:00 hour, as its "10:00-15:30" label hints.
mid_through_15(trades_df) ==
    [i \in DOMAIN trades_df.rows |->
        Hours(trades_df)[i] >= 10 /\ Hours(trades_df)[i] <= 15]

mid(trades_df) ==
    [i \in DOMAIN trades_df.rows |->
        Hours(trades_df)[i] >= 10 /\ Hours(trades_df)[i] < 15]

late(trades_df) ==
    [i \in DOMAIN trades_df.rows |->
        Hours(trades_df)[i] >= 15 /\ Hours(trades_df)[i] < 16]

after(trades_df) == [i \in DOMAIN trades_df.rows |-> Hours(trades_df)[i] >= 16]

summary(trades_df, mask) ==
    LET buy == SumSeq(Loc(trades_df,
                          MaskAnd(mask, ColumnEq(trades_df, "type", "Aggressive Buy")),
                          "volume"))
        sell == SumSeq(Loc(trades_df,
                           MaskAnd(mask, ColumnEq(trades_df, "type", "Aggressive Sell")),
                           "volume"))
    IN  <<buy, sell, buy - sell>>

summarize_periods(trades_df) ==
    [early |-> summary(trades_df, early(trades_df)),
     mid   |-> summary(trades_df, mid(trades_df)),
     late  |-> summary(trades_df, late(trades_df)),
     after |-> summary(trades_df, after(trades_df))]

SeriesMul(a, b) == [i \in DOMAIN a |-> a[i] * b[i]]

\* The quotient of two numpy scalars.  A zero divisor raises nothing: numpy
\* warns and gives nan (0/0) or an infinity, so the except branch is not taken.
NumpyDivide(num, den) ==
    IF den # 0 THEN [kind |-> "float", num |-> num, den |-> den]
    ELSE IF num = 0 THEN [kind |-> "nan", num |-> 0, den |-> 0]
    ELSE [kind |-> "inf", num |-> num, den |-> 0]

compute_vwap(prices, volumes) ==
    NumpyDivide(SumSeq(SeriesMul(prices, volumes)), SumSeq(volumes))

-----------------------------------------------------------------------------
(* Alerts, volumes and levels *)

\* buy_volume without the mask: every row is summed.
buy_volume_unmasked(trades_df) == SumSeq(Column(trades_df, "volume"))

\* trades_df.loc[trades_df['type'] == 'Aggressive Buy', 'volume'].sum()
buy_volume(trades_df) ==
    SumSeq(Loc(trades_df, ColumnEq(trades_df, "type", "Aggressive Buy"), "volume"))

\* sell_volume with the buy line's type kept.
sell_volume_of_buys(trades_df) ==
    SumSeq(Loc(trades_df, ColumnEq(trades_df, "type", "Aggressive Buy"), "volume"))

sell_volume(trades_df) ==
    SumSeq(Loc(trades_df, ColumnEq(trades_df, "type", "Aggressive Sell"), "volume"))

net_flow(buy, sell) == buy - sell

\* swing_low + (swing_high - swing_low) * (permille / 1000), times 1000
SwingPoint(swing_high, swing_low, permille) ==
    1000 * swing_low + (swing_high - swing_low) * permille

\* alert_state with the net flow rule tested before the panic rule.
alert_state_net_flow_first(contract_price, buy, sell, net, alert_price, volume_ratio, net_flow_threshold, swing_high, swing_low) ==
    IF net < net_flow_threshold
    THEN "NetFlowWarning"
    ELSE IF contract_price < alert_price /\ 10 * sell > buy * volume_ratio
    THEN "PanicAlert"
    ELSE IF sell < 400
            /\ 1000 * contract_price > SwingPoint(swing_high, swing_low, 200)
    THEN "EarlyWeaknessInfo"
    ELSE IF net > 0
            /\ 1000 * contract_price > SwingPoint(swing_high, swing_low, 250)
    THEN "BullishSignal"
    ELSE "Stable"

\* The if/elif chain of the alert panel: the banner it shows.
alert_state(contract_price, buy, sell, net, alert_price, volume_ratio, net_flow_threshold, swing_high, swing_low) ==
    IF contract_price < alert_price /\ 10 * sell > buy * volume_ratio
    THEN "PanicAlert"
    ELSE IF net < net_flow_threshold
    THEN "NetFlowWarning"
    ELSE IF sell < 400
            /\ 1000 * contract_price > SwingPoint(swing_high, swing_low, 200)
    THEN "EarlyWeaknessInfo"
    ELSE IF net > 0
            /\ 1000 * contract_price > SwingPoint(swing_high, swing_low, 250)
    THEN "BullishSignal"
    ELSE "Stable"

\* levels with the digits of 0.618 transposed.
levels_681(swing_high, swing_low) ==
    << <<"0.0%", 1000 * swing_high>>,
       <<"23.6%", 1000 * swing_high - (swing_high - swing_low) * 236>>,
       <<"38.2%", 1000 * swing_high - (swing_high - swing_low) * 382>>,
       <<"50.0%", 1000 * swing_high - (swing_high - swing_low) * 500>>,
       <<"61.8%", 1000 * swing_high - (swing_high - swing_low) * 681>>,
       <<"100.0%", 1000 * swing_low>> >>

\* The levels dict, in insertion order; values in 1/100000.
levels(swing_high, swing_low) ==
    << <<"0.0%", 1000 * swing_high>>,
       <<"23.6%", 1000 * swing_high - (swing_high - swing_low) * 236>>,
       <<"38.2%", 1000 * swing_high - (swing_high - swing_low) * 382>>,
       <<"50.0%", 1000 * swing_high - (swing_high - swing_low) * 500>>,
       <<"61.8%", 1000 * swing_high - (swing_high - swing_low) * 618>>,
       <<"100.0%", 1000 * swing_low>> >>

\* Series.unique(): the values in order of first appearance
RECURSIVE Unique(_)
Unique(s) ==
    IF s = <<>> THEN <<>>
    ELSE LET front == Unique(SubSeq(s, 1, Len(s) - 1))
             last == s[Len(s)]
         IN  IF \E i \in DOMAIN front : front[i] = last
             THEN front ELSE Append(front, last)

-----------------------------------------------------------------------------
(* One run of the script *)

\* Sidebar controls: the widget values become script variables.
Controls ==
    /\ pc = "controls"
    /\ ns' = widgets @@ ns
    /\ trace' = Append(trace, "sidebar")
    /\ pc' = "fetch"
    /\ UNCHANGED <<provider, widgets, page, fault, earlier>>

\* Data fetch: both data sources call the mock; nothing catches its exception.
FetchData ==
    /\ pc = "fetch"
    /\ LET snapshot == IF ns.api_mode = "Mock (local)"
                       THEN get_mock_contract_data(ns.contract)
                       ELSE get_mock_contract_data(ns.contract)
       IN  IF Raised(snapshot)
           THEN /\ fault' = snapshot.raised
                /\ pc' = "fault"
                /\ ns' = ns
           ELSE /\ ns' = [snapshot |-> snapshot,
                          contract_price |-> snapshot.price,
                          contract_change |-> snapshot.change,
                          volume_bid |-> snapshot.bid,
                          volume_offer |-> snapshot.offer,
                          recent_trades |-> snapshot.trades] @@ ns
                /\ pc' = "parse"
                /\ fault' = fault
    /\ trace' = Append(trace, "get_mock_contract_data")
    /\ UNCHANGED <<provider, widgets, page, earlier>>

\* trades_df = parse_trades(recent_trades).  The records parse_trades writes
\* to are the ones the snapshot holds.
ParseTrades ==
    /\ pc = "parse"
    /\ ns' = [trades_df |-> parse_trades(ns.recent_trades),
              recent_trades |-> with_dt(ns.recent_trades),
              snapshot |-> Bind(ns.snapshot, "trades", with_dt(ns.recent_trades))]
             @@ ns
    /\ trace' = Append(trace, "parse_trades")
    /\ pc' = "overview"
    /\ UNCHANGED <<provider, widgets, page, fault, earlier>>

\* Top: Market Overview.
MarketOverview ==
    /\ pc = "overview"
    /\ page' = Bind(page, "overview",
                    [set_index |-> 127639, set50_index |-> 82531,
                     contract |-> ns.contract, price |-> ns.contract_price,
                     delta_plus |-> ns.contract_change > 0,
                     delta |-> ns.contract_change])
    /\ trace' = Append(trace, "render_overview")
    /\ pc' = "liquidity"
    /\ UNCHANGED <<provider, widgets, ns, fault, earlier>>

\* Left column: liquidity, imbalance and the VWAP line.  The displayed VWAP is
\* the value before its two-decimal formatting.
Liquidity ==
    /\ pc = "liquidity"
    /\ LET imbalance == ns.volume_offer - ns.volume_bid
           ratio == [num |-> ns.volume_offer, den |-> ns.volume_bid + 1]
           sentiment == IF imbalance > 1000 THEN "Bearish Pressure"
                        ELSE IF imbalance < -1000 THEN "Bullish" ELSE "Neutral"
           shown == [bid |-> ns.volume_bid, offer |-> ns.volume_offer,
                     ratio |-> ratio, imbalance |-> imbalance,
                     sentiment |-> sentiment]
           bound == [imbalance |-> imbalance, ratio |-> ratio,
                     sentiment |-> sentiment] @@ ns
       IN  IF ~ DfEmpty(ns.trades_df)
           THEN LET vwap == compute_vwap(Column(ns.trades_df, "price"),
                                         Column(ns.trades_df, "volume"))
                IN  /\ ns' = Bind(bound, "vwap", vwap)
                    /\ page' = Bind(Bind(page, "liquidity", shown), "vwap", vwap)
                    /\ trace' = trace \o <<"render_liquidity", "compute_vwap",
                                           "render_vwap">>
           ELSE /\ ns' = bound
                /\ page' = Bind(Bind(page, "liquidity", shown), "vwap",
                                [kind |-> "N/A", num |-> 0, den |-> 0])
                /\ trace' = trace \o <<"render_liquidity", "render_vwap">>
    /\ pc' = "trade_flow"
    /\ UNCHANGED <<provider, widgets, fault, earlier>>

\* Right column: the trade flow chart, one scatter trace per trade type.
TradeFlow ==
    /\ pc = "trade_flow"
    /\ page' = Bind(page, "trade_flow",
                    IF DfEmpty(ns.trades_df)
                    THEN [info |-> "No trades in sample data", types |-> <<>>]
                    ELSE [info |-> "", types |-> Unique(Column(ns.trades_df, "type"))])
    /\ trace' = Append(trace, "render_trade_flow")
    /\ pc' = "alerts"
    /\ UNCHANGED <<provider, widgets, ns, fault, earlier>>

\* Alerts / Sentiment Panel.  trades_df['type'] raises KeyError on a frame
\* without that column.
Alerts ==
    /\ pc = "alerts"
    /\ IF ~ ({"type", "volume"} \subseteq ns.trades_df.columns)
       THEN /\ fault' = "KeyError"
            /\ pc' = "fault"
            /\ UNCHANGED <<ns, page, trace>>
       ELSE LET buy == buy_volume(ns.trades_df)
                sell == sell_volume(ns.trades_df)
                net == net_flow(buy, sell)
                banner == alert_state(ns.contract_price, buy, sell, net,
                                      ns.alert_price, ns.volume_ratio,
                                      ns.net_flow_threshold,
                                      ns.swing_high, ns.swing_low)
            IN  /\ ns' = [buy_volume |-> buy, sell_volume |-> sell,
                          net_flow |-> net] @@ ns
                /\ page' = Bind(Bind(page, "alert", banner), "volumes",
                                <<buy, sell, net>>)
                /\ trace' = trace \o <<"aggregate_volumes", "evaluate_alert",
                                       "render_alert", "render_volumes">>
                /\ pc' = "periods"
                /\ fault' = fault
    /\ UNCHANGED <<provider, widgets, earlier>>

\* Time Period Analysis.  periods is None (here Empty) for an empty frame, and
\* the four metrics then show zeros.
TimePeriod ==
    /\ pc = "periods"
    /\ LET periods == IF ~ DfEmpty(ns.trades_df)
                      THEN summarize_periods(ns.trades_df) ELSE Empty
       IN  /\ ns' = Bind(ns, "periods", periods)
           /\ page' = Bind(page, "periods",
                           IF periods # Empty THEN periods
                           ELSE [early |-> <<0, 0, 0>>, mid |-> <<0, 0, 0>>,
                                 late |-> <<0, 0, 0>>, after |-> <<0, 0, 0>>])
           /\ trace' = trace \o (IF periods # Empty THEN <<"summarize_periods">>
                                 ELSE <<>>) \o <<"render_periods">>
    /\ pc' = "levels"
    /\ UNCHANGED <<provider, widgets, fault, earlier>>

\* Technical: Fibonacci & Levels.
Fibonacci ==
    /\ pc = "levels"
    /\ ns' = Bind(ns, "levels", levels(ns.swing_high, ns.swing_low))
    /\ page' = Bind(page, "levels",
                    [lines |-> levels(ns.swing_high, ns.swing_low),
                     current |-> ns.contract_price])
    /\ trace' = trace \o <<"compute_levels", "render_levels">>
    /\ pc' = "big_picture"
    /\ UNCHANGED <<provider, widgets, fault, earlier>>

\* Big Picture and the footer: static text; the script ends.
BigPicture ==
    /\ pc = "big_picture"
    /\ page' = Bind(page, "big_picture", "placeholders")
    /\ trace' = Append(trace, "render_big_picture")
    /\ pc' = "done"
    /\ UNCHANGED <<provider, widgets, ns, fault, earlier>>

-----------------------------------------------------------------------------
(* The dashboard as deployed: the mock provider, the sidebar's choices *)

MaxTrades == 2

Options == {"S50Z25", "S50H26", "S50M26"}

ApiModes == {"Mock (local)", "SETSMART / TFEX / Provider (replace)"}

Thresholds(alert_price, volume_ratio, net_flow_threshold, swing_high, swing_low) ==
    [alert_price |-> alert_price, volume_ratio |-> volume_ratio,
     net_flow_threshold |-> net_flow_threshold,
     swing_high |-> swing_high, swing_low |-> swing_low]

\* The values the sidebar widgets start with.
DefaultThresholds == Thresholds(82000, 20, -10000, 83000, 80000)

\* Other settings a user can enter.
OtherThresholds == Thresholds(80000, 10, 0, 80000, 83000)

WidgetStates ==
    {[contract |-> c, api_mode |-> m] @@ t :
        c \in Options, m \in ApiModes, t \in {DefaultThresholds, OtherThresholds}}

Finished == pc \in {"done", "fault"}

\* Rerun without waiting for the running script to finish.
RerunAnytime(w, keep) ==
    /\ widgets' = w
    /\ pc' = "controls"
    /\ ns' = Empty
    /\ page' = Empty
    /\ trace' = <<>>
    /\ fault' = PyNone
    /\ earlier' = IF keep
                  THEN <<[widgets |-> widgets, ns |-> ns, page |-> page,
                          fault |-> fault]>>
                  ELSE earlier
    /\ UNCHANGED provider

\* Streamlit executes the script again, in a fresh namespace and on a fresh
\* page.  keep chooses whether the finished run is the one remembered.
Rerun(w, keep) ==
    /\ Finished
    /\ widgets' = w
    /\ pc' = "controls"
    /\ ns' = Empty
    /\ page' = Empty
    /\ trace' = <<>>
    /\ fault' = PyNone
    /\ earlier' = IF keep
                  THEN <<[widgets |-> widgets, ns |-> ns, page |-> page,
                          fault |-> fault]>>
                  ELSE earlier
    /\ UNCHANGED provider

\* The refresh timer fires: the same widget values.
AutoRefresh == \E keep \in BOOLEAN : Rerun(widgets, keep)

\* The user changes a widget.
UserInput == \E w \in WidgetStates \ {widgets}, keep \in BOOLEAN : Rerun(w, keep)

Init ==
    /\ provider = MockProvider
    /\ widgets \in WidgetStates
    /\ pc = "controls"
    /\ ns = Empty
    /\ page = Empty
    /\ trace = <<>>
    /\ fault = PyNone
    /\ earlier = <<>>

Next ==
    \/ Controls
    \/ FetchData
    \/ ParseTrades
    \/ MarketOverview
    \/ Liquidity
    \/ TradeFlow
    \/ Alerts
    \/ TimePeriod
    \/ Fibonacci
    \/ BigPicture
    \/ AutoRefresh
    \/ UserInput

Spec == Init /\ [][Next]_vars

-----------------------------------------------------------------------------
(* One run of the script on any input: a provider with other tables, any    *)
(* symbol, any thresholds                                                   *)

SomeTrades ==
    { Trade(<<0,9,4,5>>, 81420, 300, "Aggressive Sell"),
      Trade(<<1,1,1,5>>, 81460, 200, "Aggressive Buy"),
      Trade(<<1,5,4,5>>, 81400, 500, "Aggressive Sell"),
      Trade(<<1,6,0,5>>, 81480, 400, "Aggressive Buy"),
      Trade(<<1,5,2,9>>, 81440, 600, "Aggressive Buy"),
      Trade(<<1,4,5,9>>, 81400, 0, "Aggressive Sell") }

TradeLists == UNION {[1..n -> SomeTrades] : n \in 0..MaxTrades}

\* Tables that hold one trade list for every contract, or no trade list at all.
AnyProviders ==
    {[base |-> MockBase, trades_map |-> [c \in Options |-> l]] : l \in TradeLists}
    \cup {[base |-> MockBase, trades_map |-> Empty]}

AnySymbols == Options \cup {"S50U26"}

AnyThresholds ==
    {Thresholds(a, r, n, sw[1], sw[2]) :
        a \in {82000, 80000}, r \in {10, 20}, n \in {-10000, 0},
        sw \in {<<83000, 80000>>, <<80000, 83000>>, <<85000, 84000>>}}

AnyWidgets ==
    {[contract |-> c, api_mode |-> "Mock (local)"] @@ t :
        c \in AnySymbols, t \in AnyThresholds}

InitAny ==
    /\ provider \in AnyProviders
    /\ widgets \in AnyWidgets
    /\ pc = "controls"
    /\ ns = Empty
    /\ page = Empty
    /\ trace = <<>>
    /\ fault = PyNone
    /\ earlier = <<>>

NextAny ==
    \/ Controls
    \/ FetchData
    \/ ParseTrades
    \/ MarketOverview
    \/ Liquidity
    \/ TradeFlow
    \/ Alerts
    \/ TimePeriod
    \/ Fibonacci
    \/ BigPicture

SpecAny == InitAny /\ [][NextAny]_vars

-----------------------------------------------------------------------------
(* Properties *)

Shown(panel) == panel \in DOMAIN page

\* The sum of f over a finite set of indices.
RECURSIVE SumOver(_, _)
SumOver(S, f) ==
    IF S = {} THEN 0
    ELSE LET i == CHOOSE x \in S : TRUE IN f[i] + SumOver(S \ {i}, f)

\* The trades of the snapshot, their volumes, and the indices of one side.
SnapshotTrades == ns.snapshot.trades

Volumes == [i \in DOMAIN SnapshotTrades |-> SnapshotTrades[i].volume]

Side(type) == {i \in DOMAIN SnapshotTrades : SnapshotTrades[i].type = type}

AlertStates ==
    {"PanicAlert", "NetFlowWarning", "EarlyWeaknessInfo", "BullishSignal", "Stable"}

\* The four rules as the specification words them; 0.2 = 1/5 and 0.25 = 1/4.
PanicRule ==
    /\ ns.contract_price < ns.alert_price
    /\ 10 * ns.sell_volume > ns.buy_volume * ns.volume_ratio

NetFlowRule == ns.net_flow < ns.net_flow_threshold

EarlyWeaknessRule ==
    /\ ns.sell_volume < 400
    /\ 5 * (ns.contract_price - ns.swing_low) > ns.swing_high - ns.swing_low

BullishRule ==
    /\ ns.net_flow > 0
    /\ 4 * (ns.contract_price - ns.swing_low) > ns.swing_high - ns.swing_low

\* C1: whatever the price, the volumes, the net flow and the thresholds, the
\* alert panel shows exactly one alert state, the one of the first rule that
\* matches in the order PanicAlert, NetFlowWarning, EarlyWeaknessInfo,
\* BullishSignal, with Stable when none matches; a matching PanicAlert rule
\* wins even when later rules match too.
C1_FirstMatchingRuleWins ==
    Shown("alert") =>
        /\ page.alert \in AlertStates
        /\ PanicRule => page.alert = "PanicAlert"
        /\ ~ PanicRule /\ NetFlowRule => page.alert = "NetFlowWarning"
        /\ ~ PanicRule /\ ~ NetFlowRule /\ EarlyWeaknessRule
              => page.alert = "EarlyWeaknessInfo"
        /\ ~ PanicRule /\ ~ NetFlowRule /\ ~ EarlyWeaknessRule /\ BullishRule
              => page.alert = "BullishSignal"
        /\ ~ PanicRule /\ ~ NetFlowRule /\ ~ EarlyWeaknessRule /\ ~ BullishRule
              => page.alert = "Stable"

\* The specification's example: price 814.0 under 820.0, 500 sold against 200
\* bought at ratio 2.0, and the net flow rule matching as well.
C1_Witness ==
    /\ Shown("alert")
    /\ page.alert = "PanicAlert"
    /\ ns.contract_price = 81400 /\ ns.alert_price = 82000
    /\ ns.sell_volume = 500 /\ ns.buy_volume = 200 /\ ns.volume_ratio = 20
    /\ NetFlowRule

HourOf(t) == 10 * t.timestamp[1] + t.timestamp[2]

InBucket(b, hour) ==
    CASE b = "early" -> hour < 10
      [] b = "mid" -> 10 <= hour /\ hour < 15
      [] b = "late" -> hour = 15
      [] b = "after" -> hour >= 16

Buckets == {"early", "mid", "late", "after"}

BucketSide(b, type) == {i \in Side(type) : InBucket(b, HourOf(SnapshotTrades[i]))}

Labels == <<"0.0%", "23.6%", "38.2%", "50.0%", "61.8%", "100.0%">>

Fractions == <<0, 236, 382, 500, 618, 1000>>

\* C7: for every swing high and swing low, in either order, the six levels come
\* in the order 0.0%, 23.6%, 38.2%, 50.0%, 61.8%, 100.0% with price
\* swingHigh - (swingHigh - swingLow) * fraction; the 0.0% level is the swing
\* high, the 100.0% level the swing low, and (830.0, 800.0) gives
\* 830.0, 822.92, 818.54, 815.0, 811.46, 800.0.
C7_Levels ==
    Bound("levels") =>
        /\ Len(ns.levels) = 6
        /\ \A k \in 1..6 :
              /\ ns.levels[k][1] = Labels[k]
              /\ ns.levels[k][2] =
                    1000 * ns.swing_high - (ns.swing_high - ns.swing_low) * Fractions[k]
        /\ ns.levels[1][2] = 1000 * ns.swing_high
        /\ ns.levels[6][2] = 1000 * ns.swing_low
        /\ (ns.swing_high = 83000 /\ ns.swing_low = 80000) =>
              [k \in 1..6 |-> ns.levels[k][2]] =
                 <<83000000, 82292000, 81854000, 81500000, 81146000, 80000000>>
        /\ page.levels.lines = ns.levels

\* Levels of an inverted swing: high 800.0 under low 830.0.
C7_Witness ==
    /\ Bound("levels")
    /\ ns.swing_high = 80000 /\ ns.swing_low = 83000
    /\ ns.levels[2] = <<"23.6%", 80708000>>

Last(seq) == seq[Len(seq)]

Zeros == <<0, 0, 0>>

\* C2: when the snapshot's trade list is empty the run does not fail: buy
\* volume, sell volume and net flow are 0, every period bucket is (0, 0, 0),
\* and an alert state is still shown.
C2_EmptyTradesRunCompletes ==
    (Bound("recent_trades") /\ ns.recent_trades = <<>>) =>
        /\ fault = PyNone
        /\ pc \in {"periods", "levels", "big_picture", "done"} =>
              /\ ns.buy_volume = 0 /\ ns.sell_volume = 0 /\ ns.net_flow = 0
              /\ Shown("alert") /\ page.alert \in AlertStates
        /\ pc \in {"levels", "big_picture", "done"} =>
              page.periods = [early |-> Zeros, mid |-> Zeros,
                              late |-> Zeros, after |-> Zeros]

TotalVolume == SumOver(DOMAIN SnapshotTrades, Volumes)

PriceVolume == [i \in DOMAIN SnapshotTrades |->
                   SnapshotTrades[i].price * SnapshotTrades[i].volume]

\* C3: compute_vwap gives None (absence) whenever the trade list is empty or
\* the total traded volume is zero, and otherwise
\* sum(price_i * volume_i) / sum(volume_i) over all trades of either side; a
\* division by zero yields neither a value nor a fault.
C3_VwapAbsentWithoutVolume ==
    Shown("vwap") =>
        /\ fault = PyNone
        /\ IF SnapshotTrades = <<>> \/ TotalVolume = 0
           THEN /\ Bound("vwap") => ns.vwap.kind = PyNone
                /\ page.vwap.kind \in {"N/A", PyNone}
           ELSE /\ Bound("vwap") /\ ns.vwap.kind = "float"
                /\ ns.vwap.num * TotalVolume
                      = SumOver(DOMAIN SnapshotTrades, PriceVolume) * ns.vwap.den
                /\ page.vwap = ns.vwap

\* C4: a request for a symbol outside {S50Z25, S50H26, S50M26} ends in an
\* explicit UnknownSymbol failure, the provider's failure is caught at the
\* refresh boundary, and the run ends showing that data is unavailable, never
\* in an unhandled fault.
C4_UnknownSymbolCaught ==
    (/\ Bound("contract")
     /\ ns.contract \notin {"S50Z25", "S50H26", "S50M26"}
     /\ trace # <<>> /\ Last(trace) = "get_mock_contract_data")
    =>
        /\ Raised(get_mock_contract_data(ns.contract))
        /\ get_mock_contract_data(ns.contract).raised = "UnknownSymbol"
        /\ fault = PyNone
        /\ pc # "fault"
        /\ Shown("data_unavailable")

\* C8: a run for S50Z25 over the mock tables with the default thresholds
\* (820.0, 2.0, -10000, swing 830.0 / 800.0) computes buy volume 600, sell
\* volume 800, net flow -200 and shows the alert state Stable.
C8_S50Z25Scenario ==
    (/\ provider = MockProvider
     /\ widgets.contract = "S50Z25"
     /\ Thresholds(widgets.alert_price, widgets.volume_ratio,
                   widgets.net_flow_threshold, widgets.swing_high,
                   widgets.swing_low) = Thresholds(82000, 20, -10000, 83000, 80000)
     /\ pc \in {"periods", "levels", "big_picture", "done"})
    =>
        /\ fault = PyNone
        /\ ns.contract_price = 81400
        /\ ns.buy_volume = 600 /\ ns.sell_volume = 800 /\ ns.net_flow = -200
        /\ page.volumes = <<600, 800, -200>>
        /\ page.alert = "Stable"

C8_Witness ==
    /\ pc = "done"
    /\ widgets.contract = "S50Z25"
    /\ widgets.alert_price = 82000 /\ widgets.volume_ratio = 20
    /\ widgets.net_flow_threshold = -10000
    /\ widgets.swing_high = 83000 /\ widgets.swing_low = 80000
    /\ page.alert = "Stable"

\* What a finished run leaves: volumes, VWAP, period summaries and levels in
\* ns, the alert state and every other panel in page.
SameAsEarlier ==
    /\ earlier[1].ns = ns
    /\ earlier[1].page = page
    /\ earlier[1].fault = fault

NoDt(trades) == \A i \in DOMAIN trades : "dt" \notin DOMAIN trades[i]

\* C9: the results of a run (volumes, VWAP, period summaries, levels, alert
\* state) depend only on that run's symbol and thresholds: a finished run has
\* the results of any finished earlier run with the same inputs, whatever ran
\* in between; and no value written in one run is read by a later one: a run
\* starts with nothing bound and nothing shown, and the trade records the
\* provider hands it carry no field that parse_trades wrote before.
C9_RunsIndependent ==
    /\ [](Finished /\ earlier # <<>> /\ earlier[1].widgets = widgets
             => SameAsEarlier)
    /\ [][Finished /\ ~ Finished' => ns' = Empty /\ page' = Empty]_vars
    /\ [][pc = "fetch" /\ pc' = "parse" => NoDt(ns'.recent_trades)]_vars

\* A finished run whose inputs are those of a remembered run, two runs back.
C9_Witness ==
    /\ pc = "done"
    /\ earlier # <<>>
    /\ earlier[1].widgets = widgets
    /\ earlier[1].page.alert = "Stable"
    /\ widgets.contract = "S50Z25"
    /\ "dt" \in DOMAIN ns.recent_trades[1]

Analytics == {"aggregate_volumes", "compute_vwap", "summarize_periods"}

Renders ==
    {"render_overview", "render_liquidity", "render_vwap", "render_trade_flow",
     "render_alert", "render_volumes", "render_periods", "render_levels",
     "render_big_picture"}

\* Every b of the trace has an a before it.
Before(a, b) ==
    \A j \in DOMAIN trace : trace[j] = b => \E i \in 1..(j - 1) : trace[i] = a

\* No a of the trace comes after a b.
NotAfter(a, b) ==
    \A i, j \in DOMAIN trace : trace[i] = a /\ trace[j] = b => i < j

\* A step either continues the run's trace or starts the trace of a new run,
\* which it does only when the run has finished.
OneRunAtATime ==
    \/ /\ Len(trace') >= Len(trace)
       /\ SubSeq(trace', 1, Len(trace)) = trace
    \/ Finished /\ trace' = <<>>

====
